---- MODULE Spec2Model ----
(***************************************************************************)
(* A model of restock_watcher.py: the stock classifier                     *)
(* (is_in_stock_by_button), one poll of the page (check_stock_once), the   *)
(* state store (load_state / save_state over a file system whose files are *)
(* token sequences) and the polling loop of main.                          *)
(*                                                                         *)
(* Text is a sequence of tokens: a word, or one whitespace character.      *)
(* JSON values read from the state file keep their JSON spelling           *)
(* ("true", "false", or "absent" for a field the entry does not carry).    *)
(***************************************************************************)
EXTENDS Integers, Sequences, FiniteSets, TLC

VARIABLES
    pc,            \* main's position
    state,         \* main's in-memory `state` (what load_state returned, then updated)
    files,         \* the file system: STATE_FILE and STATE_FILE + ".tmp"
    result,        \* the StockResult of the current cycle
    cyc,           \* what the current cycle has done so far (history)
    run,           \* the current maximal run of in_stock=true observations (history)
    now,           \* the clock now_utc_str reads, in sleeps since start
    discordUrlSet, \* bool(DISCORD_WEBHOOK_URL)
    crashedAt,     \* where the process was when it was killed
    loadedFrom,    \* what the state file was when load_state read it (history)
    saving,        \* load_state's answer when the running save_state began (history)
    page,          \* the page handed to is_in_stock_by_button
    cpc,           \* the classifier call's position
    out,           \* the classifier call's outcome
    loaded,        \* what load_state returned at start-up (history)
    saveFailed,    \* a save_state of this process has raised (history)
    fn,            \* the function a single-function specification calls, and its position
    arg,           \* that call's input
    ret            \* that call's result

vars == <<pc, state, files, result, cyc, run, now, discordUrlSet, crashedAt,
          loadedFrom, saving, page, cpc, out, loaded, saveFailed, fn, arg, ret>>

\* The number of sleeps the model follows the loop for.
MaxTime == 2

----------------------------------------------------------------------------
(* Configuration: lines 38-58.                                             *)

PRODUCT_URL == "https://www.hollisterco.com/shop/uk/p/lace-trim-layering-cami-61713322-1005"
DESIRED_COLOR_NAME == "cloud white"
DESIRED_SIZE == "M"
EMAIL_ENABLED == TRUE
\* A URL the navigation can end on after a redirect.
RedirectedUrl == "https://www.hollisterco.com/shop/uk/p/redirected"

----------------------------------------------------------------------------
(* normalize: re.sub(r"\s+", " ", s.strip().lower())                       *)

Whitespace == {" ", "\n", "\t"}

Lower(w) ==
    CASE w \in {"Out", "OUT"} -> "out"
      [] w \in {"Of", "OF"} -> "of"
      [] w \in {"Stock", "STOCK"} -> "stock"
      [] w \in {"Sold", "SOLD"} -> "sold"
      [] w \in {"Currently", "CURRENTLY"} -> "currently"
      [] w \in {"Unavailable", "UNAVAILABLE"} -> "unavailable"
      [] w \in {"Free", "FREE"} -> "free"
      [] w \in {"Delivery", "DELIVERY"} -> "delivery"
      [] w \in {"True", "TRUE"} -> "true"
      [] w \in {"False", "FALSE"} -> "false"
      [] w \in {"Cloud", "CLOUD"} -> "cloud"
      [] w \in {"White", "WHITE"} -> "white"
      [] w = "M" -> "m"
      [] w = "S" -> "s"
      [] OTHER -> w

RECURSIVE LStrip(_)
LStrip(s) ==
    IF s # <<>> /\ Head(s) \in Whitespace THEN LStrip(Tail(s)) ELSE s

RECURSIVE RStrip(_)
RStrip(s) ==
    IF s # <<>> /\ s[Len(s)] \in Whitespace
    THEN RStrip(SubSeq(s, 1, Len(s) - 1))
    ELSE s

Strip(s) == RStrip(LStrip(s))

LowerAll(s) == [i \in 1..Len(s) |-> Lower(s[i])]

\* re.sub(r"\s+", " ", s): every maximal run of whitespace becomes one space.
RECURSIVE CollapseWs(_)
CollapseWs(s) ==
    IF s = <<>> THEN <<>>
    ELSE IF Head(s) \in Whitespace
         THEN <<" ">> \o CollapseWs(LStrip(s))
         ELSE <<Head(s)>> \o CollapseWs(Tail(s))

normalize(s) == CollapseWs(LowerAll(Strip(s)))

\* Python's `phrase in text`.
Contains(phrase, text) ==
    \E i \in 1..(Len(text) - Len(phrase) + 1) :
        SubSeq(text, i, i + Len(phrase) - 1) = phrase

----------------------------------------------------------------------------
(* The page, as the answers it gives to the calls the classifier makes.    *)

CountAnswers == {"0", "1", "raise"}
EnabledAnswers == {"true", "false", "raise"}
\* get_attribute("aria-disabled"): None, a value, or an exception.
AriaAnswers == {"none", "true", "TRUE", "false", "raise"}

BodyTexts ==
    { <<"Free", " ", "Delivery">>,
      <<"\n", "Out", " ", "\n", "OF", "\t", "Stock", " ">>,
      <<"Sold", " ", " ", "Out">>,
      <<" ", "Currently", "\n", "Unavailable">>,
      <<"SOLD", " ", "OUT", " ", "-", " ", "out", " ", "of", " ", "stock">> }

\* page.inner_text("body"): the text, a Playwright Error, or a TimeoutError.
BodyAnswers ==
    [kind : {"text"}, text : BodyTexts]
    \cup {[kind |-> "error", text |-> <<>>], [kind |-> "timeout", text |-> <<>>]}

Pages ==
    [ bag : CountAnswers,        \* count() of the "Add to Bag" locator, line 239
      cart : CountAnswers,       \* count() of the "Add to Cart" locator, line 239
      recount : CountAnswers,    \* btn.count() at line 252
      enabled : EnabledAnswers,  \* btn.is_enabled(), line 262
      aria : AriaAnswers,        \* btn.get_attribute("aria-disabled"), line 263
      body : BodyAnswers ]       \* page.inner_text("body"), line 254

----------------------------------------------------------------------------
(* find_add_to_bag_button and is_in_stock_by_button.                       *)

\* Lines 236-242 with the two texts tried in the other order.
FindCartFirst(p) ==
    IF p.cart = "1" THEN "cart"
    ELSE IF p.bag = "1" THEN "bag"
    ELSE "none"

\* The locator returned, or "none" for None.
find_add_to_bag_button(p) ==
    IF p.bag = "1" THEN "bag"
    ELSE IF p.cart = "1" THEN "cart"
    ELSE "none"

NegativePhrases ==
    << <<"out", " ", "of", " ", "stock">>,
       <<"sold", " ", "out">>,
       <<"currently", " ", "unavailable">> >>

PhraseReason(i) ==
    CASE i = 1 -> "Detected phrase 'out of stock' in page text."
      [] i = 2 -> "Detected phrase 'sold out' in page text."
      [] i = 3 -> "Detected phrase 'currently unavailable' in page text."

ReasonNotFound == "Could not find Add to Bag/Add to Cart button."
ReasonAria == "Add button present but aria-disabled=true."
ReasonEnabled == "Add button is enabled."
ReasonDisabled == "Add button is disabled."
ReasonError == "Error while checking add button enabled state: Error()"

Returned(inStock, reason, readBody) ==
    [kind |-> "return", in_stock |-> inStock, reason |-> reason,
     exc |-> "none", readBody |-> readBody]

Raised(exc, readBody) ==
    [kind |-> "raise", in_stock |-> FALSE, reason |-> "", exc |-> exc,
     readBody |-> readBody]

\* Line 264 with the aria-disabled test dropped.
AriaDisabledNever(attr) == FALSE

\* (get_attribute("aria-disabled") or "").lower() == "true"
AriaDisabled(attr) == Lower(IF attr = "none" THEN "" ELSE attr) = "true"

\* Lines 253-258: the page-text fallback.
TextFallback(p) ==
    IF p.body.kind # "text" THEN Raised(p.body.kind, TRUE)
    ELSE LET text == normalize(p.body.text)
             hits == {i \in 1..Len(NegativePhrases) : Contains(NegativePhrases[i], text)}
         IN  IF hits # {}
             THEN Returned(FALSE, PhraseReason(CHOOSE i \in hits : \A j \in hits : i <= j), TRUE)
             ELSE Returned(FALSE, ReasonNotFound, TRUE)

\* Lines 260-269: the control's own state.
ButtonState(p) ==
    IF p.enabled = "raise" THEN Returned(FALSE, ReasonError, FALSE)
    ELSE IF p.enabled = "false" THEN Returned(FALSE, ReasonDisabled, FALSE)
    ELSE IF p.aria = "raise" THEN Returned(FALSE, ReasonError, FALSE)
    ELSE IF AriaDisabled(p.aria) THEN Returned(FALSE, ReasonAria, FALSE)
    ELSE Returned(TRUE, ReasonEnabled, FALSE)

is_in_stock_by_button(p) ==
    IF find_add_to_bag_button(p) = "none" THEN TextFallback(p)
    ELSE IF p.recount = "raise" THEN Raised("error", FALSE)
    ELSE IF p.recount = "0" THEN TextFallback(p)
    ELSE ButtonState(p)

NoOutcome == Raised("none", FALSE)

----------------------------------------------------------------------------
(* The state store: format_key, load_state, save_state.                    *)

\* The key with the size left out of it.
FormatKeyNoSize(url, color, size) ==
    <<url, IF color \in {"none", ""} THEN "*" ELSE color, "*">>

\* f"{url} | color={color or '*'} | size={size or '*'}", as its three parts.
format_key(url, color, size) ==
    <<url, IF color \in {"none", ""} THEN "*" ELSE color,
           IF size \in {"none", ""} THEN "*" ELSE size>>

WatchKey == format_key(PRODUCT_URL, DESIRED_COLOR_NAME, DESIRED_SIZE)
\* An entry another run of the watcher, for another size, left in the file.
OtherKey == format_key(PRODUCT_URL, DESIRED_COLOR_NAME, "S")
\* sort_keys=True: the keys in the order json.dump writes them ("M" < "S").
KeyOrder == <<WatchKey, OtherKey>>

Dict(m) == [kind |-> "dict", map |-> m]
EmptyDict == Dict(<<>>)
\* A JSON document that is no object (a list, a number, null).
NonDict == [kind |-> "list", map |-> <<>>]

IsDict(v) == v.kind = "dict"
Has(v, k) == k \in DOMAIN v.map

Entry(inStock, utc, reason, url) ==
    [in_stock |-> inStock, last_check_utc |-> utc, last_reason |-> reason,
     last_resolved_url |-> url]

\* The file's tokens: the braces of the document and one token per member.
Tok(t, k, v) == [t |-> t, k |-> k, v |-> v]
NoEntry == Entry("absent", 0, "", "")
OpenTok == Tok("{", <<>>, NoEntry)
CloseTok == Tok("}", <<>>, NoEntry)
ListOpenTok == Tok("[", <<>>, NoEntry)
ListCloseTok == Tok("]", <<>>, NoEntry)
ItemTok(k, v) == Tok("member", k, v)

\* A reason text with a character outside ASCII, U+00FC written [U+00FC], and
\* one that holds the six ASCII characters \u00fc themselves.
ReasonNonAscii == "Nicht verf[U+00FC]gbar"
ReasonBackslash == "Nicht verf\\u00fcgbar"

\* json.dump's string encoding (ensure_ascii=True): a character outside
\* ASCII becomes its \uXXXX escape, a backslash is doubled; other sampled
\* texts are written as they are.
Escape(s) ==
    CASE s = ReasonNonAscii -> "Nicht verf\\u00fcgbar"
      [] s = ReasonBackslash -> "Nicht verf\\\\u00fcgbar"
      [] OTHER -> s

\* A reader that takes the text between the quotes as it stands.
UnescapeNone(s) == s

\* json.load's string decoding: \\ is a backslash, \uXXXX its character.
Unescape(s) ==
    CASE s = "Nicht verf\\u00fcgbar" -> ReasonNonAscii
      [] s = "Nicht verf\\\\u00fcgbar" -> ReasonBackslash
      [] OTHER -> s

\* An entry as its member of the document, and back.
Written(e) ==
    [e EXCEPT !.last_reason = Escape(@), !.last_resolved_url = Escape(@)]
Read(e) ==
    [e EXCEPT !.last_reason = Unescape(@), !.last_resolved_url = Unescape(@)]

\* json.dump(data, f, indent=2, sort_keys=True)
Serialize(v) ==
    IF IsDict(v)
    THEN LET keys == SelectSeq(KeyOrder, LAMBDA k : Has(v, k))
         IN  <<OpenTok>> \o [i \in 1..Len(keys) |-> ItemTok(keys[i], Written(v.map[keys[i]]))]
             \o <<CloseTok>>
    ELSE <<ListOpenTok, ListCloseTok>>

\* json.load: the value of a well-formed document, or a JSONDecodeError.
WellFormedDict(b) ==
    /\ Len(b) >= 2
    /\ b[1].t = "{"
    /\ b[Len(b)].t = "}"
    /\ \A i \in 2..(Len(b) - 1) : b[i].t = "member"

Parse(b) ==
    IF WellFormedDict(b)
    THEN [ok |-> TRUE,
          val |-> Dict([k \in {b[i].k : i \in 2..(Len(b) - 1)} |->
                          LET last == CHOOSE i \in 2..(Len(b) - 1) :
                                        /\ b[i].k = k
                                        /\ \A j \in 2..(Len(b) - 1) : b[j].k = k => j <= i
                          IN  Read(b[last].v)])]
    ELSE IF b = <<ListOpenTok, ListCloseTok>>
    THEN [ok |-> TRUE, val |-> NonDict]
    ELSE [ok |-> FALSE, val |-> EmptyDict]

File(exists, readable, bytes) ==
    [exists |-> exists, readable |-> readable, bytes |-> bytes]
Missing == File(FALSE, FALSE, <<>>)

\* A start that reads no file.
LoadNothing(f) == EmptyDict

\* Lines 81-88.
load_state(f) ==
    IF ~f.exists THEN EmptyDict
    ELSE IF ~f.readable THEN EmptyDict
    ELSE IF ~Parse(f.bytes).ok THEN EmptyDict
    ELSE Parse(f.bytes).val

\* What kind of state file load_state met.
FileKind(f) ==
    IF ~f.exists THEN "missing"
    ELSE IF ~f.readable THEN "unreadable"
    ELSE IF ~Parse(f.bytes).ok THEN "corrupt"
    ELSE IF ~IsDict(Parse(f.bytes).val) THEN "nondict"
    ELSE "dict"

\* Line 92 writing the state file itself.
TmpInPlace(path) == path

\* Line 92: tmp = path + ".tmp"
Tmp(path) == path \o <<".tmp">>

\* A path is the sequence of its parts.
STATE_FILE == <<".restock_state.json">>

----------------------------------------------------------------------------
(* check_stock_once, lines 272-332: one poll of the page, as a function of *)
(* what the browser does in it.                                            *)

ReasonTimedOut == "Timed out loading the page."

StockResult(inStock, reason, url) ==
    [in_stock |-> inStock, reason |-> reason, resolved_url |-> url,
     color |-> DESIRED_COLOR_NAME, size |-> DESIRED_SIZE]
NoResult ==
    [in_stock |-> FALSE, reason |-> "", resolved_url |-> "", color |-> "", size |-> ""]

APage(bag, recount, enabled, aria, body) ==
    [bag |-> bag, cart |-> "0", recount |-> recount, enabled |-> enabled,
     aria |-> aria, body |-> body]
PlainBody == [kind |-> "text", text |-> <<"Free", " ", "Delivery">>]
SoldOutBody == [kind |-> "text", text |-> <<"Sold", " ", " ", "Out">>]

\* The pages the loop's cycles meet: one for each way the classifier ends.
CyclePages ==
    { APage("1", "1", "true", "none", PlainBody),
      APage("1", "1", "false", "none", PlainBody),
      APage("1", "1", "raise", "none", PlainBody),
      APage("0", "0", "true", "none", SoldOutBody),
      APage("0", "0", "true", "none", [kind |-> "error", text |-> <<>>]),
      APage("0", "0", "true", "none", [kind |-> "timeout", text |-> <<>>]) }

CheckEnvs ==
    [ launch : {"ok", "raise"},            \* lines 273-282
      goto : {"ok", "timeout", "error"},   \* line 285
      url : {RedirectedUrl},               \* page.url, line 291
      page : CyclePages,
      close : {"ok", "raise"} ]            \* lines 331-332

CheckReturn(res, steps, fault) ==
    [kind |-> "return", res |-> res, steps |-> steps, fault |-> fault]
CheckRaise(steps, fault) ==
    [kind |-> "raise", res |-> NoResult, steps |-> steps, fault |-> fault]

AllSteps == <<"goto", "cookie", "settle", "color", "size", "classify">>

\* Lines 284-329: the try block and its `except PlaywrightTimeoutError`.
CheckBody(env) ==
    IF env.goto = "timeout"
    THEN CheckReturn(StockResult(FALSE, ReasonTimedOut, PRODUCT_URL), <<"goto">>, "nav_timeout")
    ELSE IF env.goto = "error"
    THEN CheckRaise(<<"goto">>, "nav_error")
    ELSE LET c == is_in_stock_by_button(env.page)
         IN  IF c.kind = "return"
             THEN CheckReturn(StockResult(c.in_stock, c.reason, env.url), AllSteps,
                              IF c.reason = ReasonError THEN "control" ELSE "none")
             ELSE IF c.exc = "timeout"
             THEN CheckReturn(StockResult(FALSE, ReasonTimedOut, PRODUCT_URL), AllSteps, "page")
             ELSE CheckRaise(AllSteps, "page")

check_stock_once(env) ==
    IF env.launch = "raise" THEN CheckRaise(<<>>, "launch")
    ELSE IF env.close = "raise"
    THEN CheckRaise(CheckBody(env).steps,
                    IF CheckBody(env).fault = "none" THEN "close" ELSE CheckBody(env).fault)
    ELSE CheckBody(env)

----------------------------------------------------------------------------
(* main, lines 339-392.                                                    *)

BoolJson(b) == IF b THEN "true" ELSE "false"
\* bool(v) of a JSON value, with the default of prev.get("in_stock", False).
Truthy(v) == v = "true"

\* Lines 357-358: prev = state.get(key, {}); bool(prev.get("in_stock", False))
PrevInStock(st, key) == IF Has(st, key) THEN Truthy(st.map[key].in_stock) ELSE FALSE

\* Line 363 without the test of the previous entry (level-triggered).
ShouldNotifyLevel(res, prevInStock) == res.in_stock

\* Line 363.
ShouldNotify(res, prevInStock) == res.in_stock /\ ~prevInStock

\* Lines 381-386 building a new mapping that holds the watched key alone.
UpdatedOnlyKey(st, key, res, utc) ==
    Dict([k \in {key} |-> Entry(BoolJson(res.in_stock), utc, res.reason, res.resolved_url)])

\* Lines 381-386.
UpdatedState(st, key, res, utc) ==
    Dict([k \in DOMAIN st.map \cup {key} |->
            IF k = key
            THEN Entry(BoolJson(res.in_stock), utc, res.reason, res.resolved_url)
            ELSE st.map[k]])

FreshCycle ==
    [checked |-> FALSE, observed |-> FALSE, checkFault |-> "none", steps |-> <<>>,
     logged |-> FALSE, prev |-> "undecided", notify |-> "undecided",
     discord |-> "no", email |-> "no", fault |-> "none", updated |-> FALSE,
     saved |-> FALSE]

FreshRun == [len |-> 0, fresh |-> TRUE, discord |-> 0, email |-> 0]
NotSaving == [active |-> FALSE, prior |-> EmptyDict, new |-> EmptyDict]

OldEntry(inStock) == Entry(inStock, 0, ReasonDisabled, PRODUCT_URL)

InitialStores ==
    { Dict(m) : m \in
        UNION { [ks -> {OldEntry("absent"), OldEntry("false"), OldEntry("true")}] :
                  ks \in SUBSET {WatchKey, OtherKey} } }

InitialStateFiles ==
    {Missing}
    \cup {File(TRUE, TRUE, Serialize(d)) : d \in {d \in InitialStores :
              Has(d, OtherKey) => d.map[OtherKey] = OldEntry("true")}}
    \cup {File(TRUE, FALSE, Serialize(Dict((WatchKey :> OldEntry("true")))))}
    \cup {File(TRUE, TRUE, <<>>), File(TRUE, TRUE, <<OpenTok>>)}
    \cup {File(TRUE, TRUE, Serialize(NonDict))}

IdleClassifier ==
    /\ page = APage("0", "0", "true", "none", PlainBody)
    /\ cpc = "idle"
    /\ out = NoOutcome

\* No single function is being called.
IdleFunction ==
    /\ fn = "idle"
    /\ arg = <<>>
    /\ ret = <<>>

Init ==
    /\ pc = "start"
    /\ state = EmptyDict
    /\ files \in [{STATE_FILE} -> InitialStateFiles]
    /\ result = NoResult
    /\ cyc = FreshCycle
    /\ run = FreshRun
    /\ now = 0
    /\ discordUrlSet \in BOOLEAN
    /\ crashedAt = "none"
    /\ loadedFrom = "none"
    /\ saving = NotSaving
    /\ loaded = EmptyDict
    /\ saveFailed = FALSE
    /\ IdleClassifier
    /\ IdleFunction

FileAt(path) == IF path \in DOMAIN files THEN files[path] ELSE Missing
WriteFile(fs, path, f) == [p \in DOMAIN fs \cup {path} |-> IF p = path THEN f ELSE fs[p]]
RemoveFile(fs, path) == [p \in DOMAIN fs \ {path} |-> fs[p]]

\* Lines 341-344: the test e-mail; an exception here ends the process.
StartupEmail ==
    /\ pc = "start"
    /\ \E sent \in BOOLEAN : pc' = IF sent THEN "load" ELSE "exit"
    /\ UNCHANGED <<state, files, result, cyc, run, now, discordUrlSet, loaded, saveFailed, fn, arg, ret, crashedAt,
                   loadedFrom, saving, page, cpc, out>>

\* Lines 346-347.
LoadState ==
    /\ pc = "load"
    /\ state' = load_state(FileAt(STATE_FILE))
    /\ loadedFrom' = FileKind(FileAt(STATE_FILE))
    /\ run' = [FreshRun EXCEPT !.fresh =
                 ~(IsDict(state') /\ PrevInStock(state', WatchKey))]
    /\ loaded' = state'
    /\ pc' = "check"
    /\ UNCHANGED <<files, result, cyc, now, discordUrlSet, saveFailed, fn, arg, ret, crashedAt, saving,
                   page, cpc, out>>

\* Line 356.
CheckStockOnce ==
    /\ pc = "check"
    /\ \E env \in CheckEnvs :
         LET o == check_stock_once(env)
         IN  /\ cyc' = [cyc EXCEPT !.checked = TRUE,
                                   !.observed = (o.kind = "return"),
                                   !.checkFault = o.fault,
                                   !.steps = o.steps,
                                   !.fault = IF o.kind = "raise" THEN "check" ELSE "none"]
             /\ result' = o.res
             /\ run' = IF o.kind = "raise" THEN run
                       ELSE IF o.res.in_stock THEN [run EXCEPT !.len = @ + 1]
                       ELSE FreshRun
             /\ pc' = IF o.kind = "return" THEN "decide" ELSE "except"
    /\ UNCHANGED <<state, files, now, discordUrlSet, loaded, saveFailed, fn, arg, ret, crashedAt, loadedFrom, saving,
                   page, cpc, out>>

\* Lines 357-363: state.get raises AttributeError on a value that is no dict.
Decide ==
    /\ pc = "decide"
    /\ IF ~IsDict(state)
       THEN /\ cyc' = [cyc EXCEPT !.fault = "state"]
            /\ pc' = "except"
       ELSE LET prevInStock == PrevInStock(state, WatchKey)
                notify == ShouldNotify(result, prevInStock)
            IN  /\ cyc' = [cyc EXCEPT
                     !.logged = TRUE,
                     !.prev = IF Has(state, WatchKey)
                              THEN state.map[WatchKey].in_stock ELSE "nokey",
                     !.notify = IF notify THEN "yes" ELSE "no"]
                /\ pc' = IF notify THEN "discord" ELSE "update"
    /\ UNCHANGED <<state, files, result, run, now, discordUrlSet, loaded, saveFailed, fn, arg, ret, crashedAt,
                   loadedFrom, saving, page, cpc, out>>

\* Lines 375-376.
SendDiscord ==
    /\ pc = "discord"
    /\ IF discordUrlSet
       THEN \E ok \in BOOLEAN :
              /\ cyc' = [cyc EXCEPT !.discord = IF ok THEN "ok" ELSE "raised",
                                    !.fault = IF ok THEN @ ELSE "discord"]
              /\ pc' = IF ok THEN "email" ELSE "except"
              /\ run' = [run EXCEPT !.discord = @ + 1]
       ELSE /\ pc' = "email"
            /\ UNCHANGED <<cyc, run>>
    /\ UNCHANGED <<state, files, result, now, discordUrlSet, loaded, saveFailed, fn, arg, ret, crashedAt, loadedFrom,
                   saving, page, cpc, out>>

\* Lines 377-378.
SendEmail ==
    /\ pc = "email"
    /\ IF EMAIL_ENABLED
       THEN \E ok \in BOOLEAN :
              /\ cyc' = [cyc EXCEPT !.email = IF ok THEN "ok" ELSE "raised",
                                    !.fault = IF ok THEN @ ELSE "email"]
              /\ pc' = IF ok THEN "update" ELSE "except"
              /\ run' = [run EXCEPT !.email = @ + 1]
       ELSE /\ pc' = "update"
            /\ UNCHANGED <<cyc, run>>
    /\ UNCHANGED <<state, files, result, now, discordUrlSet, loaded, saveFailed, fn, arg, ret, crashedAt, loadedFrom,
                   saving, page, cpc, out>>

\* Lines 381-386.
UpdateState ==
    /\ pc = "update"
    /\ state' = UpdatedState(state, WatchKey, result, now)
    /\ cyc' = [cyc EXCEPT !.updated = TRUE]
    /\ pc' = "save_open"
    /\ UNCHANGED <<files, result, run, now, discordUrlSet, loaded, saveFailed, fn, arg, ret, crashedAt, loadedFrom,
                   saving, page, cpc, out>>

\* Line 93: open(tmp, "w") creates or truncates the file, or raises OSError.
SaveOpen ==
    /\ pc = "save_open"
    /\ \E ok \in BOOLEAN :
         IF ok
         THEN /\ files' = WriteFile(files, Tmp(STATE_FILE), File(TRUE, TRUE, <<>>))
              /\ saving' = [active |-> TRUE, prior |-> load_state(FileAt(STATE_FILE)),
                            new |-> state]
              /\ pc' = "save_write"
              /\ cyc' = cyc
         ELSE /\ cyc' = [cyc EXCEPT !.fault = "save"]
              /\ pc' = "except"
              /\ UNCHANGED <<files, saving>>
    /\ saveFailed' = (saveFailed \/ cyc'.fault = "save")
    /\ UNCHANGED <<state, result, run, now, discordUrlSet, loaded, fn, arg, ret, crashedAt, loadedFrom,
                   page, cpc, out>>

\* Line 94: json.dump writes the document piece by piece; a write can fail.
SaveWrite ==
    /\ pc = "save_write"
    /\ LET tmp == Tmp(STATE_FILE)
           doc == Serialize(state)
           done == Len(FileAt(tmp).bytes)
       IN  \/ /\ done < Len(doc)
              /\ files' = WriteFile(files, tmp,
                            File(TRUE, TRUE, Append(FileAt(tmp).bytes, doc[done + 1])))
              /\ UNCHANGED <<pc, cyc, saving>>
           \/ /\ done < Len(doc)
              /\ cyc' = [cyc EXCEPT !.fault = "save"]
              /\ saving' = NotSaving
              /\ pc' = "except"
              /\ UNCHANGED files
           \/ /\ done = Len(doc)
              /\ pc' = "save_replace"
              /\ UNCHANGED <<files, cyc, saving>>
    /\ saveFailed' = (saveFailed \/ cyc'.fault = "save")
    /\ UNCHANGED <<state, result, run, now, discordUrlSet, loaded, fn, arg, ret, crashedAt, loadedFrom,
                   page, cpc, out>>

\* Line 95: os.replace(tmp, path), or OSError.
SaveReplace ==
    /\ pc = "save_replace"
    /\ LET tmp == Tmp(STATE_FILE)
       IN  \E ok \in BOOLEAN :
             IF ok
             THEN /\ files' = IF tmp = STATE_FILE THEN files
                              ELSE RemoveFile(WriteFile(files, STATE_FILE, FileAt(tmp)), tmp)
                  /\ pc' = "sleep"
                  /\ cyc' = [cyc EXCEPT !.saved = TRUE]
             ELSE /\ cyc' = [cyc EXCEPT !.fault = "save"]
                  /\ pc' = "except"
                  /\ UNCHANGED files
    /\ saving' = NotSaving
    /\ saveFailed' = (cyc'.fault = "save")
    /\ UNCHANGED <<state, result, run, now, discordUrlSet, loaded, fn, arg, ret, crashedAt, loadedFrom,
                   page, cpc, out>>

\* Lines 389-390 with the exception passed on to the caller of main.
ExceptExits ==
    /\ pc = "except"
    /\ pc' = "exit"
    /\ UNCHANGED <<state, files, result, cyc, run, now, discordUrlSet, loaded, saveFailed, fn, arg, ret, crashedAt,
                   loadedFrom, saving, page, cpc, out>>

\* Lines 389-390.
Except ==
    /\ pc = "except"
    /\ pc' = "sleep"
    /\ UNCHANGED <<state, files, result, cyc, run, now, discordUrlSet, loaded, saveFailed, fn, arg, ret, crashedAt,
                   loadedFrom, saving, page, cpc, out>>

\* Line 392, and the next turn of `while True`.
Sleep ==
    /\ pc = "sleep"
    /\ now < MaxTime
    /\ now' = now + 1
    /\ cyc' = FreshCycle
    /\ result' = NoResult
    /\ pc' = "check"
    /\ UNCHANGED <<state, files, run, discordUrlSet, loaded, saveFailed, fn, arg, ret, crashedAt, loadedFrom, saving,
                   page, cpc, out>>

SavePcs == {"save_open", "save_write", "save_replace"}

\* The process is killed while it is in save_state.
Crash ==
    /\ pc \in SavePcs
    /\ crashedAt' = pc
    /\ pc' = "crashed"
    /\ UNCHANGED <<state, files, result, cyc, run, now, discordUrlSet, loaded, saveFailed, fn, arg, ret, loadedFrom,
                   saving, page, cpc, out>>

Next ==
    \/ StartupEmail
    \/ LoadState
    \/ CheckStockOnce
    \/ Decide
    \/ SendDiscord
    \/ SendEmail
    \/ UpdateState
    \/ SaveOpen
    \/ SaveWrite
    \/ SaveReplace
    \/ Except
    \/ Sleep
    \/ Crash

Spec == Init /\ [][Next]_vars

\* No state file, and one that holds no object.
LiveStateFiles ==
    { Missing, File(TRUE, TRUE, Serialize(NonDict)) }

InitLive == Init /\ files[STATE_FILE] \in LiveStateFiles

\* The loop is one sequential thread: while the process lives, its next
\* statement is executed.
SpecLive == InitLive /\ [][Next]_vars /\ WF_vars(Next)

----------------------------------------------------------------------------
(* The classifier on its own, over every page.                             *)

IdleMain ==
    /\ pc = "idle"
    /\ state = EmptyDict
    /\ files = [p \in {STATE_FILE} |-> Missing]
    /\ result = NoResult
    /\ cyc = FreshCycle
    /\ run = FreshRun
    /\ now = 0
    /\ discordUrlSet = FALSE
    /\ crashedAt = "none"
    /\ loadedFrom = "none"
    /\ saving = NotSaving
    /\ loaded = EmptyDict
    /\ saveFailed = FALSE

InitClassify ==
    /\ IdleMain
    /\ page \in Pages
    /\ cpc = "call"
    /\ out = NoOutcome
    /\ fn = "idle"
    /\ arg = <<>>
    /\ ret = "none"

Classify ==
    /\ cpc = "call"
    /\ out' = is_in_stock_by_button(page)
    /\ ret' = find_add_to_bag_button(page)
    /\ cpc' = "done"
    /\ UNCHANGED <<pc, state, files, result, cyc, run, now, discordUrlSet, loaded, saveFailed, fn, arg, crashedAt,
                   loadedFrom, saving, page>>

NextClassify == Classify

SpecClassify == InitClassify /\ [][NextClassify]_vars

----------------------------------------------------------------------------
(* Properties of the polling loop (Spec).                                  *)

\* The entry the cycle's observation becomes (lines 381-386).
ObservedEntry == Entry(BoolJson(result.in_stock), now, result.reason, result.resolved_url)

\* The watched key's entry holds the cycle's observation, in memory and in
\* the state file.
Persisted ==
    /\ IsDict(state)
    /\ Has(state, WatchKey)
    /\ state.map[WatchKey] = ObservedEntry
    /\ load_state(FileAt(STATE_FILE)) = state

\* C1: the notify decision of a cycle is true exactly when the observation is
\* in stock and the entry main holds for the watched key is missing, or has
\* in_stock false, or has no in_stock field.
C1_NotifyIffEdge ==
    cyc.notify # "undecided" =>
        ( cyc.notify = "yes"
          <=> (result.in_stock /\ cyc.prev \in {"nokey", "absent", "false"}) )

\* A cycle notified against an entry that has no in_stock field.
C1_Witness ==
    /\ cyc.notify = "yes"
    /\ cyc.prev = "absent"
    /\ result.in_stock

\* C2: in every maximal run of in_stock=true observations each transport is
\* invoked in exactly one cycle, the first of the run: never in a second
\* cycle, and in the first cycle of a run that follows an out-of-stock or
\* missing entry every configured transport has been invoked when it ends
\* (a cycle that failed on a loaded state that is no dict aside).
C2_OneNotificationPerRun ==
    /\ run.discord <= 1
    /\ run.email <= 1
    /\ (pc = "sleep" /\ run.fresh /\ run.len >= 1 /\ cyc.fault # "state") =>
          /\ run.email = 1
          /\ discordUrlSet => run.discord = 1

\* C3: when a sender raised in a notifying cycle, the cycle still ends with
\* the watched key's entry holding the observation, saved to the state file.
C3_TransportFaultPersists ==
    (pc = "sleep" /\ cyc.fault \in {"discord", "email"}) => Persisted

\* C4: a cycle whose check returned an observation and in which no sender and
\* no save_state raised ends with the watched key's entry overwritten by the
\* observation, in memory and in the state file.
C4_EntryOverwritten ==
    (pc = "sleep" /\ cyc.observed /\ cyc.fault \notin {"discord", "email", "save"})
        => Persisted

\* C5: at every point of save_state at which the process can be killed, and
\* after it was killed there, load_state of the state path returns the
\* snapshot it returned before the save began or the snapshot being saved;
\* once save_state has returned it returns the snapshot saved.
C5_SaveAtomic ==
    /\ saving.active =>
          load_state(FileAt(STATE_FILE)) \in {saving.prior, saving.new}
    /\ cyc.saved => load_state(FileAt(STATE_FILE)) = state

\* The process was killed with the temporary file half written, while the
\* state file held another snapshot than the one being saved.
C5_Witness ==
    /\ pc = "crashed"
    /\ crashedAt = "save_write"
    /\ Len(FileAt(Tmp(STATE_FILE)).bytes) \in 1..(Len(Serialize(saving.new)) - 1)
    /\ saving.prior # saving.new
    /\ saving.prior # EmptyDict

\* C6: a state file that is missing, unreadable, corrupt or no key-to-entry
\* mapping loads as the empty history, and no cycle after it fails on the
\* loaded state.
C6_BadFileIsEmptyHistory ==
    loadedFrom \in {"missing", "unreadable", "corrupt", "nondict"} =>
        /\ (pc = "check" /\ now = 0) => state = EmptyDict
        /\ cyc.fault # "state"
        /\ (pc = "sleep" /\ cyc.observed /\ cyc.fault = "none") => Persisted

\* C7: a navigation timeout makes check_stock_once return, after the goto
\* alone, an out-of-stock observation with the timeout reason and the
\* original URL; the cycle sends no notification and, unless save_state
\* raises, ends with the observation persisted.
C7_NavigationTimeout ==
    (cyc.checkFault = "nav_timeout" /\ cyc.observed) =>
        /\ result = StockResult(FALSE, ReasonTimedOut, PRODUCT_URL)
        /\ cyc.steps = <<"goto">>
        /\ cyc.discord = "no" /\ cyc.email = "no"
        /\ (pc = "sleep" /\ cyc.fault # "save") => Persisted

\* C8: every check yields an observation, out of stock when a fault occurred
\* in the check, and every cycle logs its observation line before it sleeps.
C8_AlwaysAnObservation ==
    cyc.checked =>
        /\ cyc.observed
        /\ cyc.checkFault # "none" => ~result.in_stock
        /\ pc = "sleep" => cyc.logged

----------------------------------------------------------------------------
(* Properties of the classifier (SpecClassify).                            *)

ControlInHand == (page.bag = "1" \/ page.cart = "1") /\ page.recount = "1"
ControlAbsent ==
    \/ page.bag # "1" /\ page.cart # "1"
    \/ (page.bag = "1" \/ page.cart = "1") /\ page.recount = "0"
\* The sample texts that carry a negative-availability phrase.
NegativeBody ==
    /\ page.body.kind = "text"
    /\ page.body.text # <<"Free", " ", "Delivery">>
PlainBodyText ==
    /\ page.body.kind = "text"
    /\ page.body.text = <<"Free", " ", "Delivery">>

\* C9: the classifier answers in_stock=true only for a control that was
\* found, is enabled and whose aria-disabled is not "true"; a disabled
\* control, aria-disabled=true, a fault while reading the control's state,
\* an absent control with a negative phrase and an absent control without
\* one each return in_stock=false with the reason of that condition.
C9_NoFalsePositive ==
    cpc = "done" =>
        /\ (out.kind = "return" /\ out.in_stock) =>
              /\ ControlInHand
              /\ page.enabled = "true"
              /\ page.aria \notin {"true", "raise"}
        /\ (ControlInHand /\ page.enabled = "false") =>
              out = Returned(FALSE, ReasonDisabled, FALSE)
        /\ (ControlInHand /\ page.enabled = "true" /\ page.aria = "true") =>
              out = Returned(FALSE, ReasonAria, FALSE)
        /\ (ControlInHand /\ (page.enabled = "raise"
                              \/ (page.enabled = "true" /\ page.aria = "raise"))) =>
              out = Returned(FALSE, ReasonError, FALSE)
        /\ (ControlAbsent /\ NegativeBody) =>
              /\ out.kind = "return" /\ ~out.in_stock
              /\ out.reason \in {PhraseReason(i) : i \in 1..3}
        /\ (ControlAbsent /\ PlainBodyText) =>
              out = Returned(FALSE, ReasonNotFound, TRUE)

\* The "Add to Bag" lookup failed, "Add to Cart" was found enabled, and the
\* classifier answered in stock.
C9_Witness ==
    /\ cpc = "done"
    /\ page.bag = "raise"
    /\ page.cart = "1"
    /\ page.aria = "false"
    /\ out = Returned(TRUE, ReasonEnabled, FALSE)

\* C10: whatever call on the page fails, the classifier returns
\* in_stock=false with a reason and raises nothing.
C10_NeverRaises ==
    cpc = "done" => (out.kind = "return" /\ out.reason # "")

\* C11: with a control in hand the classifier returns from the control's
\* state alone, without reading the body text; a disabled control beside a
\* negative phrase gives the disabled-control reason; and with both controls
\* on the page the "Add to Bag" one is the control taken.
C11_ControlFirst ==
    cpc = "done" =>
        /\ ControlInHand =>
              /\ out.kind = "return"
              /\ ~out.readBody
              /\ out.reason \in {ReasonEnabled, ReasonDisabled, ReasonAria, ReasonError}
        /\ (ControlInHand /\ NegativeBody /\ page.enabled = "false") =>
              out = Returned(FALSE, ReasonDisabled, FALSE)
        /\ (page.bag = "1" /\ page.cart = "1") => ret = "bag"
        /\ (page.bag = "0" /\ page.cart = "1") => ret = "cart"

\* Both controls and a negative phrase on the page, the control disabled.
C11_Witness ==
    /\ cpc = "done"
    /\ page.bag = "1" /\ page.cart = "1" /\ page.recount = "1"
    /\ page.enabled = "false"
    /\ NegativeBody
    /\ ret = "bag"
    /\ out.reason = ReasonDisabled

----------------------------------------------------------------------------
(* The browser of one cycle: the acquire and release steps of              *)
(* check_stock_once, lines 273-332 (SpecBrowser).                          *)

\* Every variable but the three of a single function call.
loopVars == <<pc, state, files, result, cyc, run, now, discordUrlSet, crashedAt,
              loadedFrom, saving, page, cpc, out, loaded, saveFailed>>

\* What each Playwright call of the cycle does; body is how the try block of
\* lines 284-321 ends: a return, a navigation timeout, any other exception.
BrowserEnvs ==
    [launch : {"ok", "raise"}, context : {"ok", "raise"}, newpage : {"ok", "raise"},
     body : {"return", "timeout", "error"},
     closeContext : {"ok", "raise"}, closeBrowser : {"ok", "raise"}]

\* browser, context: "none" before it is acquired, "open", "closed" once its
\* close() returned.  pending: how the try block ended.  exit: how control
\* went back to main ("none" while the call runs).
Handles(browser, context, pending, exit) ==
    [browser |-> browser, context |-> context, pending |-> pending, exit |-> exit]

InitBrowser ==
    /\ IdleMain
    /\ IdleClassifier
    /\ fn = "launch"
    /\ arg \in BrowserEnvs
    /\ ret = Handles("none", "none", "none", "none")

\* Line 274.  An exception here leaves through the with block of line 273.
Launch ==
    /\ fn = "launch"
    /\ IF arg.launch = "raise"
       THEN fn' = "exit" /\ ret' = [ret EXCEPT !.exit = "raise"]
       ELSE fn' = "new_context" /\ ret' = [ret EXCEPT !.browser = "open"]
    /\ UNCHANGED <<loopVars, arg>>

\* Lines 275-281, before the try of line 284.
NewContext ==
    /\ fn = "new_context"
    /\ IF arg.context = "raise"
       THEN fn' = "exit" /\ ret' = [ret EXCEPT !.exit = "raise"]
       ELSE fn' = "new_page" /\ ret' = [ret EXCEPT !.context = "open"]
    /\ UNCHANGED <<loopVars, arg>>

\* Line 282, before the try of line 284.
NewPage ==
    /\ fn = "new_page"
    /\ IF arg.newpage = "raise"
       THEN fn' = "exit" /\ ret' = [ret EXCEPT !.exit = "raise"]
       ELSE fn' = "try" /\ ret' = ret
    /\ UNCHANGED <<loopVars, arg>>

\* Lines 284-329: the try block and its except clause; the timeout is turned
\* into a return, any other exception stays pending over the finally.
TryBlock ==
    /\ fn = "try"
    /\ fn' = "context.close"
    /\ ret' = [ret EXCEPT !.pending = IF arg.body = "error" THEN "raise" ELSE "return"]
    /\ UNCHANGED <<loopVars, arg>>

\* Line 331.  When it raises, line 332 is not run.
CloseContext ==
    /\ fn = "context.close"
    /\ IF arg.closeContext = "raise"
       THEN fn' = "exit" /\ ret' = [ret EXCEPT !.exit = "raise"]
       ELSE fn' = "browser.close" /\ ret' = [ret EXCEPT !.context = "closed"]
    /\ UNCHANGED <<loopVars, arg>>

\* Line 332, then the pending return or exception goes to the caller.
CloseBrowser ==
    /\ fn = "browser.close"
    /\ fn' = "exit"
    /\ IF arg.closeBrowser = "raise"
       THEN ret' = [ret EXCEPT !.exit = "raise"]
       ELSE ret' = [ret EXCEPT !.browser = "closed", !.exit = ret.pending]
    /\ UNCHANGED <<loopVars, arg>>

NextBrowser ==
    \/ Launch
    \/ NewContext
    \/ NewPage
    \/ TryBlock
    \/ CloseContext
    \/ CloseBrowser

SpecBrowser == InitBrowser /\ [][NextBrowser]_vars

----------------------------------------------------------------------------
(* format_key over pairs of watch targets (SpecKey).                       *)

\* Colour and size values a target can carry; "none" is Python's None.
SampleColors == {"none", "", "cloud white", "Cloud White", " cloud  white ", "navy"}
SampleSizes == {"none", "", "M", "m", " M", "S"}

\* The text of a sampled value as words and whitespace characters.
Tokens(s) ==
    CASE s = "" -> <<>>
      [] s = "cloud white" -> <<"cloud", " ", "white">>
      [] s = "Cloud White" -> <<"Cloud", " ", "White">>
      [] s = " cloud  white " -> <<" ", "cloud", " ", " ", "white", " ">>
      [] s = " M" -> <<" ", "M">>
      [] OTHER -> <<s>>

WatchTargets ==
    [url : {PRODUCT_URL, RedirectedUrl}, color : SampleColors, size : SampleSizes]

\* `x or '*'` of line 336.
OrStar(x) == IF x \in {"none", ""} THEN "*" ELSE x

InitKey ==
    /\ IdleMain
    /\ IdleClassifier
    /\ fn = "format_key"
    /\ arg \in WatchTargets \X WatchTargets
    /\ ret = <<>>

FormatKeys ==
    /\ fn = "format_key"
    /\ ret' = <<format_key(arg[1].url, arg[1].color, arg[1].size),
               format_key(arg[2].url, arg[2].color, arg[2].size)>>
    /\ fn' = "done"
    /\ UNCHANGED <<loopVars, arg>>

SpecKey == InitKey /\ [][FormatKeys]_vars

\* The value after normalize (trim, lowercase, whitespace collapse); an
\* absent value is the wildcard.
Normalized(x) == IF x = "none" THEN <<"*">> ELSE normalize(Tokens(x))

SameAfterNormalize(a, b) ==
    /\ a.url = b.url
    /\ Normalized(a.color) = Normalized(b.color)
    /\ Normalized(a.size) = Normalized(b.size)

SameAsGiven(a, b) ==
    /\ a.url = b.url
    /\ OrStar(a.color) = OrStar(b.color)
    /\ OrStar(a.size) = OrStar(b.size)

\* C13 as stated: two targets with the same URL whose color and size are
\* equal after normalization have the same key.
C13_NormalizedKey ==
    (fn = "done" /\ SameAfterNormalize(arg[1], arg[2])) => ret[1] = ret[2]

\* C13 amended: the key is built from the URL and the color and size as they
\* are given (absent or empty = wildcard), without normalization: targets
\* equal in these have the same key, and targets that differ in any of them,
\* be it only in case or whitespace, have different keys.
C13_KeyAsGiven ==
    fn = "done" => (SameAsGiven(arg[1], arg[2]) <=> ret[1] = ret[2])

\* Two targets that differ in the case of the color only: two keys.
C13_Witness ==
    /\ fn = "done"
    /\ arg[1].color = "cloud white" /\ arg[2].color = "Cloud White"
    /\ arg[1].url = arg[2].url /\ arg[1].size = "M" /\ arg[2].size = "M"
    /\ SameAfterNormalize(arg[1], arg[2])
    /\ ret[1] # ret[2]

----------------------------------------------------------------------------
(* save_state then load_state on one path (SpecRoundTrip).                 *)

SampleReasons == {ReasonEnabled, ReasonNonAscii, ReasonBackslash}
SampleEntries ==
    { Entry(b, t, r, u) : b \in {"true", "false"}, t \in {0, 1},
                          r \in SampleReasons, u \in {PRODUCT_URL} }
\* Every mapping from a set of keys to entries.
SampleStores ==
    { Dict(m) : m \in UNION { [ks -> SampleEntries] : ks \in SUBSET {WatchKey, OtherKey} } }
\* What is at the path before the save.
FilesBefore ==
    { Missing,
      File(TRUE, TRUE, <<OpenTok>>),
      File(TRUE, TRUE, Serialize(Dict([k \in {OtherKey} |-> Entry("true", 0, ReasonEnabled, PRODUCT_URL)]))) }

\* The path's file, its ".tmp" neighbour, and what load_state returned.
OnDisk(tmp, file, got) == [tmp |-> tmp, file |-> file, got |-> got]

InitRoundTrip ==
    /\ IdleMain
    /\ IdleClassifier
    /\ fn = "save_state"
    /\ arg \in [data : SampleStores, before : FilesBefore]
    /\ ret = OnDisk(Missing, arg.before, EmptyDict)

\* Lines 92-94.
DumpToTmp ==
    /\ fn = "save_state"
    /\ ret' = [ret EXCEPT !.tmp = File(TRUE, TRUE, Serialize(arg.data))]
    /\ fn' = "os.replace"
    /\ UNCHANGED <<loopVars, arg>>

\* Line 95.
ReplaceTmp ==
    /\ fn = "os.replace"
    /\ ret' = [ret EXCEPT !.file = ret.tmp, !.tmp = Missing]
    /\ fn' = "load_state"
    /\ UNCHANGED <<loopVars, arg>>

\* Lines 81-88.
LoadBack ==
    /\ fn = "load_state"
    /\ ret' = [ret EXCEPT !.got = load_state(ret.file)]
    /\ fn' = "done"
    /\ UNCHANGED <<loopVars, arg>>

NextRoundTrip ==
    \/ DumpToTmp
    \/ ReplaceTmp
    \/ LoadBack

SpecRoundTrip == InitRoundTrip /\ [][NextRoundTrip]_vars

\* C14: load_state after save_state on the same path returns the mapping
\* that was saved, equal in every key and field, whatever was at the path
\* before and also for reason texts outside ASCII.
C14_RoundTrip ==
    fn = "done" => ret.got = arg.data

\* A two-key mapping with a non-ASCII reason came back, and the file holds
\* the reason in its escaped spelling.
C14_Witness ==
    /\ fn = "done"
    /\ DOMAIN arg.data.map = {WatchKey, OtherKey}
    /\ arg.data.map[WatchKey].last_reason = ReasonNonAscii
    /\ arg.data.map[OtherKey].last_reason = ReasonBackslash
    /\ ret.file.bytes[2].v.last_reason # ReasonNonAscii
    /\ ret.got = arg.data

----------------------------------------------------------------------------
(* The store the decision reads (Spec).                                    *)

\* The watched key's entry of a mapping, NoEntry when it has none.
WatchedEntry(v) ==
    IF IsDict(v) /\ Has(v, WatchKey) THEN v.map[WatchKey] ELSE NoEntry

\* The watched key's entry a read of the state file would give now.
DiskEntry ==
    LET f == FileAt(STATE_FILE)
    IN  IF f.exists /\ f.readable /\ Parse(f.bytes).ok
        THEN WatchedEntry(Parse(f.bytes).val)
        ELSE NoEntry

\* The decision of line 363 is made, the update of line 381 is not: the
\* state file is as it was when the cycle started.
DecidedPcs == {"discord", "email", "update"}

PrevUsed == IF cyc.prev = "nokey" THEN "absent" ELSE cyc.prev

\* C15 as stated: in every cycle the previous entry the decision uses is the
\* entry the state file holds at the start of that cycle.
C15_ReadEachCycle ==
    pc \in DecidedPcs =>
        /\ WatchedEntry(state) = DiskEntry
        /\ PrevUsed = DiskEntry.in_stock

\* C15 amended: the decision uses the entry of the mapping held in memory,
\* loaded once at start-up; it is the state file's entry in every cycle
\* before which the last save_state attempted, if any, returned.
C15_ReadOnceThenMemory ==
    pc \in DecidedPcs =>
        /\ PrevUsed = WatchedEntry(state).in_stock
        /\ ~saveFailed =>
              /\ WatchedEntry(state) = DiskEntry
              /\ PrevUsed = DiskEntry.in_stock

\* A first cycle deciding on an entry the file held at start-up, and a later
\* cycle deciding on the entry the cycle before it saved.
C15_Witness ==
    /\ pc \in DecidedPcs
    /\ ~saveFailed
    /\ now >= 1
    /\ DiskEntry.last_check_utc = now - 1
    /\ DiskEntry.in_stock = "true"
    /\ cyc.prev = "true"

----------------------------------------------------------------------------
(* pick_size, lines 198-231 (SpecSize).                                    *)

\* The longest list of matching elements a page of the model carries.
MaxEls == 2

\* An element that matches the size text, as the answers it gives.
\* tag: a button whose whole text is the size, a button that contains it, or
\* a role=button element that contains it.
Element(tag, visible, disabled, aria, click) ==
    [tag |-> tag, visible |-> visible, disabled |-> disabled, aria |-> aria,
     click |-> click]

ElementTags == {"exact", "contains", "role"}

ElementsOfTag(tag) ==
    { Element(tag, "true", "none", "none", "ok"),      \* enabled, the click works
      Element(tag, "true", "none", "false", "ok"),     \* aria-disabled="false"
      Element(tag, "true", "none", "none", "raise"),   \* enabled, the click times out
      Element(tag, "false", "none", "none", "ok"),     \* invisible
      Element(tag, "true", "", "none", "ok"),          \* disabled attribute
      Element(tag, "true", "none", "true", "ok"),      \* aria-disabled="true"
      Element(tag, "true", "none", "TRUE", "ok"),      \* aria-disabled="TRUE"
      Element(tag, "raise", "none", "none", "ok"),     \* is_visible raises
      Element(tag, "true", "none", "raise", "ok") }    \* get_attribute raises

SampleElements == UNION { ElementsOfTag(tag) : tag \in ElementTags }

\* The three locators of lines 206-210, in the order they are tried.
CandidateSets == <<"exact", "contains", "role">>

\* The page: its matching elements in document order, and the candidate set
\* whose count() raises, if any.
SizePages ==
    [els : UNION { [1..n -> SampleElements] : n \in 0..MaxEls },
     countRaises : {"none"} \cup ElementTags]

\* The elements a locator matches, as their positions in document order.
Matches(els, set) ==
    SelectSeq([i \in 1..Len(els) |-> i],
              LAMBDA i : \/ els[i].tag = set
                         \/ set = "contains" /\ els[i].tag = "exact")

\* Line 223 without the aria-disabled test.
SizeDisabledAttrOnly(el) == el.disabled # "none"

\* Line 223.
SizeDisabled(el) == AriaDisabled(el.aria) \/ el.disabled # "none"

\* Lines 216-226 from the k-th match of one set on: the element clicked
\* (0 for none) and whether the click returned.  An exception ends the set.
RECURSIVE ScanSet(_, _, _)
ScanSet(els, idxs, k) ==
    IF k > Len(idxs) THEN [click |-> 0, ok |-> FALSE]
    ELSE LET el == els[idxs[k]]
         IN  IF el.visible = "raise" THEN [click |-> 0, ok |-> FALSE]
             ELSE IF el.visible = "false" THEN ScanSet(els, idxs, k + 1)
             ELSE IF el.aria = "raise" THEN [click |-> 0, ok |-> FALSE]
             ELSE IF SizeDisabled(el) THEN ScanSet(els, idxs, k + 1)
             ELSE [click |-> idxs[k], ok |-> el.click = "ok"]

\* Lines 212-229 from the s-th candidate set on; clicks lists the clicks
\* issued so far, each as <<set, element>>.
RECURSIVE PickFrom(_, _, _)
PickFrom(p, s, clicks) ==
    IF s > Len(CandidateSets) THEN [ok |-> FALSE, clicks |-> clicks]
    ELSE IF p.countRaises = CandidateSets[s] THEN PickFrom(p, s + 1, clicks)
    ELSE LET r == ScanSet(p.els, Matches(p.els, CandidateSets[s]), 1)
             issued == IF r.click = 0 THEN clicks ELSE Append(clicks, <<s, r.click>>)
         IN  IF r.ok THEN [ok |-> TRUE, clicks |-> issued]
             ELSE PickFrom(p, s + 1, issued)

pick_size(p) == PickFrom(p, 1, <<>>)

InitSize ==
    /\ IdleMain
    /\ IdleClassifier
    /\ fn = "pick_size"
    /\ arg \in SizePages
    /\ ret = [ok |-> FALSE, clicks |-> <<>>]

PickSize ==
    /\ fn = "pick_size"
    /\ ret' = pick_size(arg)
    /\ fn' = "done"
    /\ UNCHANGED <<loopVars, arg>>

SpecSize == InitSize /\ [][PickSize]_vars

\* Visible, without a disabled attribute, aria-disabled not "true" in any
\* letter case.
EnabledVisible(el) ==
    /\ el.visible = "true"
    /\ el.disabled = "none"
    /\ el.aria \notin {"true", "TRUE"}

\* C16: pick_size issues at most one click per candidate set, the sets taken
\* in the order exact, containing, role=button; each click is on the first
\* element of its set that is visible and not disabled; it returns success
\* exactly when the last click issued returned; and on a page where no set
\* holds an enabled visible element it clicks nothing and returns failure.
C16_ClicksOnlyEnabledVisible ==
    fn = "done" =>
        /\ \A c \in 1..Len(ret.clicks) :
              LET s == ret.clicks[c][1]
                  i == ret.clicks[c][2]
                  idxs == Matches(arg.els, CandidateSets[s])
              IN  /\ \E k \in 1..Len(idxs) :
                        /\ idxs[k] = i
                        /\ \A j \in 1..(k - 1) : ~EnabledVisible(arg.els[idxs[j]])
                  /\ EnabledVisible(arg.els[i])
                  /\ c > 1 => ret.clicks[c - 1][1] < s
                  /\ c < Len(ret.clicks) => arg.els[i].click = "raise"
        /\ ret.ok <=> /\ ret.clicks # <<>>
                      /\ arg.els[ret.clicks[Len(ret.clicks)][2]].click = "ok"
        /\ (\A i \in 1..Len(arg.els) : ~EnabledVisible(arg.els[i])) =>
              (~ret.ok /\ ret.clicks = <<>>)

\* An element with aria-disabled="TRUE" and an invisible one are passed over
\* and the enabled button after them is clicked.
C16_Witness ==
    /\ fn = "done"
    /\ Len(arg.els) = MaxEls
    /\ arg.els[1].tag = "exact" /\ arg.els[1].aria = "TRUE"
    /\ arg.els[MaxEls].tag = "exact" /\ EnabledVisible(arg.els[MaxEls])
    /\ arg.countRaises = "none"
    /\ ret.ok
    /\ ret.clicks = << <<1, MaxEls>> >>

----------------------------------------------------------------------------
(* pick_color, lines 161-195, and the selection steps of check_stock_once, *)
(* lines 293-321 (SpecSelect).                                             *)

\* The longest list of img[alt] elements a page of the model carries.
MaxImgs == 2

\* get_attribute("alt"): None, a text, or an exception.
AltText(text) == [kind |-> "text", text |-> text]
AltNone == [kind |-> "none", text |-> <<>>]
AltRaises == [kind |-> "raise", text |-> <<>>]
MatchingAlt == AltText(<<"Cloud", " ", " ", "White", " ", "swatch">>)

\* An image: its alt, its own click (line 180), its ancestor's (line 182).
Image(alt, click, ancestor) == [alt |-> alt, click |-> click, ancestor |-> ancestor]

SampleImages ==
    { Image(AltNone, "ok", "ok"),
      Image(AltText(<<"navy">>), "ok", "ok"),
      Image(AltRaises, "ok", "ok"),
      Image(MatchingAlt, "ok", "ok"),
      Image(MatchingAlt, "raise", "ok"),
      Image(MatchingAlt, "raise", "raise") }

\* button: the count of the button with the color text (line 189), then its
\* click (line 190).
ColorPages ==
    [imgs : UNION { [1..n -> SampleImages] : n \in 0..MaxImgs },
     imgCount : {"ok", "raise"},
     button : {"0", "1", "raise"},
     buttonClick : {"ok", "raise"}]

\* How a strategy ends, and the clicks it issued.
Strategy(kind, clicks) == [kind |-> kind, clicks |-> clicks]

\* Line 166.
ColorTarget == normalize(Tokens(DESIRED_COLOR_NAME))

\* Lines 174-183 from the i-th image on.
RECURSIVE ScanImages(_, _)
ScanImages(imgs, i) ==
    IF i > Len(imgs) THEN Strategy("miss", <<>>)
    ELSE LET im == imgs[i]
         IN  IF im.alt.kind = "raise" THEN Strategy("raise", <<>>)
             ELSE IF Contains(ColorTarget, normalize(im.alt.text))
             THEN IF im.click = "ok" THEN Strategy("ok", <<"image">>)
                  ELSE IF im.ancestor = "ok" THEN Strategy("ok", <<"image", "ancestor">>)
                  ELSE Strategy("raise", <<"image", "ancestor">>)
             ELSE ScanImages(imgs, i + 1)

\* Lines 170-183, without the try around them.
StrategyA(p) ==
    IF p.imgCount = "raise" THEN Strategy("raise", <<>>) ELSE ScanImages(p.imgs, 1)

\* Lines 189-192, without the try around them.
StrategyB(p) ==
    IF p.button = "raise" THEN Strategy("raise", <<>>)
    ELSE IF p.button = "0" THEN Strategy("miss", <<>>)
    ELSE IF p.buttonClick = "ok" THEN Strategy("ok", <<"button">>)
    ELSE Strategy("raise", <<"button">>)

\* try: ... except Exception: pass (lines 169/184 and 188/193).
TryPass(r) == IF r.kind = "raise" THEN Strategy("miss", r.clicks) ELSE r

Picked(ok, via, clicks) == [ok |-> ok, via |-> via, clicks |-> clicks, raised |-> FALSE]

pick_color(p) ==
    LET a == TryPass(StrategyA(p))
    IN  IF a.kind = "raise" THEN [Picked(FALSE, "none", a.clicks) EXCEPT !.raised = TRUE]
        ELSE IF a.kind = "ok" THEN Picked(TRUE, "alt", a.clicks)
        ELSE LET b == TryPass(StrategyB(p))
             IN  IF b.kind = "raise"
                 THEN [Picked(FALSE, "none", a.clicks \o b.clicks) EXCEPT !.raised = TRUE]
                 ELSE IF b.kind = "ok" THEN Picked(TRUE, "button", a.clicks \o b.clicks)
                 ELSE Picked(FALSE, "none", a.clicks \o b.clicks)

\* The size pages the selection steps meet: no match, a disabled match, an
\* enabled one whose click times out, an enabled one.
SelectSizePages ==
    { [els |-> <<>>, countRaises |-> "none"],
      [els |-> <<Element("exact", "true", "", "none", "ok")>>, countRaises |-> "none"],
      [els |-> <<Element("exact", "true", "none", "none", "raise")>>, countRaises |-> "none"],
      [els |-> <<Element("exact", "true", "none", "none", "ok")>>, countRaises |-> "none"] }

SelectEnvs == [color : ColorPages, size : SelectSizePages, page : CyclePages]

\* Lines 293-329 after a navigation that returned: the two picks, the
\* classifier, and the observation or exception that results.
Selected(kind, res, color, size, classified) ==
    [kind |-> kind, res |-> res, color |-> color, size |-> size,
     classified |-> classified]

SelectAndClassify(env) ==
    LET c == pick_color(env.color)
        s == pick_size(env.size)
        k == is_in_stock_by_button(env.page)
    IN  IF c.raised THEN Selected("raise", NoResult, c, s, FALSE)
        ELSE IF k.kind = "return"
        THEN Selected("return", StockResult(k.in_stock, k.reason, RedirectedUrl), c, s, TRUE)
        ELSE IF k.exc = "timeout"
        THEN Selected("return", StockResult(FALSE, ReasonTimedOut, PRODUCT_URL), c, s, TRUE)
        ELSE Selected("raise", NoResult, c, s, TRUE)

InitSelect ==
    /\ IdleMain
    /\ IdleClassifier
    /\ fn = "select"
    /\ arg \in SelectEnvs
    /\ ret = <<>>

Select ==
    /\ fn = "select"
    /\ ret' = SelectAndClassify(arg)
    /\ fn' = "done"
    /\ UNCHANGED <<loopVars, arg>>

SpecSelect == InitSelect /\ [][Select]_vars

\* C17: pick_color never raises, tries the image-alt strategy before the
\* button-text one and stops at the first that succeeds; and whatever the
\* two picks did, check_stock_once runs the classifier after them and
\* returns an observation carrying the requested color and size.
C17_SelectorMissNeverAborts ==
    fn = "done" =>
        /\ ~ret.color.raised
        /\ ret.color.via = "alt" => "button" \notin {ret.color.clicks[i] : i \in DOMAIN ret.color.clicks}
        /\ ret.classified
        /\ ret.kind = "return"
        /\ ret.res.color = DESIRED_COLOR_NAME
        /\ ret.res.size = DESIRED_SIZE

----------------------------------------------------------------------------
(* try_click_cookie_banner, lines 139-154 (SpecCookie).                    *)

COOKIE_BUTTON_TEXT_CANDIDATES ==
    <<"Accept", "Accept All", "Allow all", "I Accept", "Agree", "OK",
      "Accept Cookies", "Allow All Cookies">>

\* What the button of one label answers: count(), is_visible(), click().
Button(count, visible, click) == [count |-> count, visible |-> visible, click |-> click]

SampleButtons ==
    { Button("0", "false", "ok"),       \* no such button
      Button("1", "false", "ok"),       \* there, invisible
      Button("1", "true", "ok"),        \* visible, the click works
      Button("1", "true", "raise"),     \* visible, the click fails or times out
      Button("raise", "false", "ok") }  \* count() raises

CookiePages == [1..Len(COOKIE_BUTTON_TEXT_CANDIDATES) -> SampleButtons]

\* Line 149 without is_visible().
CookieCounted(b) == b.count = "1"

\* Line 149.
CookieVisible(b) == b.count = "1" /\ b.visible = "true"

\* Lines 147-154 from the i-th label on: the labels clicked, in order.
RECURSIVE CookieFrom(_, _, _)
CookieFrom(p, i, clicks) ==
    IF i > Len(COOKIE_BUTTON_TEXT_CANDIDATES) THEN [clicks |-> clicks, raised |-> FALSE]
    ELSE IF p[i].count = "raise" THEN CookieFrom(p, i + 1, clicks)
    ELSE IF ~CookieVisible(p[i]) THEN CookieFrom(p, i + 1, clicks)
    ELSE IF p[i].click = "ok" THEN [clicks |-> Append(clicks, i), raised |-> FALSE]
    ELSE CookieFrom(p, i + 1, Append(clicks, i))

try_click_cookie_banner(p) == CookieFrom(p, 1, <<>>)

InitCookie ==
    /\ IdleMain
    /\ IdleClassifier
    /\ fn = "try_click_cookie_banner"
    /\ arg \in CookiePages
    /\ ret = [clicks |-> <<>>, raised |-> FALSE]

ClickCookieBanner ==
    /\ fn = "try_click_cookie_banner"
    /\ ret' = try_click_cookie_banner(arg)
    /\ fn' = "done"
    /\ UNCHANGED <<loopVars, arg>>

SpecCookie == InitCookie /\ [][ClickCookieBanner]_vars

\* C18 as stated: on every page the dismissal issues no more than one click
\* and returns normally.
C18_AtMostOneClick ==
    fn = "done" => (Len(ret.clicks) <= 1 /\ ~ret.raised)

\* There, visible.
VisibleMatch(b) == b.count = "1" /\ b.visible = "true"

\* C18 amended: the dismissal returns normally; it clicks visible matches
\* only, in the candidate order; every click but the last one failed, so at
\* most one click succeeds; and the buttons clicked are the visible matches
\* up to the first one whose click succeeds.
C18_AtMostOneClickSucceeds ==
    fn = "done" =>
        /\ ~ret.raised
        /\ \A c \in 1..Len(ret.clicks) :
              /\ VisibleMatch(arg[ret.clicks[c]])
              /\ c > 1 => ret.clicks[c - 1] < ret.clicks[c]
              /\ c < Len(ret.clicks) => arg[ret.clicks[c]].click = "raise"
        /\ \A i \in 1..Len(COOKIE_BUTTON_TEXT_CANDIDATES) :
              (i \in {ret.clicks[c] : c \in 1..Len(ret.clicks)})
                 <=> /\ VisibleMatch(arg[i])
                     /\ \A j \in 1..(i - 1) : VisibleMatch(arg[j]) => arg[j].click = "raise"

\* The click on the first visible button fails and the second label's
\* button is clicked after it.
C18_Witness ==
    /\ fn = "done"
    /\ arg[1].count = "1" /\ arg[1].visible = "false"
    /\ VisibleMatch(arg[2]) /\ arg[2].click = "raise"
    /\ VisibleMatch(arg[3]) /\ arg[3].click = "ok"
    /\ ret.clicks = <<2, 3>>

----------------------------------------------------------------------------
(* The loop goes on (SpecLive).                                            *)

\* C19: unless the process is killed, every cycle that starts, whatever is
\* raised in it, reaches the sleep of line 392, and every sleep is followed
\* by the start of the next cycle.
C19_LoopNeverEnds ==
    /\ (pc = "check") ~> (pc = "crashed" \/ pc = "sleep")
    /\ (pc = "sleep" /\ now < MaxTime) ~> (pc = "check")

\* A cycle starts after one whose save_state raised.
C19_Witness ==
    /\ pc = "check"
    /\ now >= 1
    /\ saveFailed
    /\ ~cyc.checked

----------------------------------------------------------------------------
(* The keys a cycle leaves alone (Spec).                                   *)

\* What a read of the state file gives now: load_state of it.
OnDiskNow == load_state(FileAt(STATE_FILE))

\* C20: from start-up on, every key other than the watched one that the
\* loaded mapping held is in the state file with the value it was loaded
\* with, whatever save_state has written since.
C20_OtherKeysUntouched ==
    loadedFrom # "none" =>
        \A k \in DOMAIN loaded.map \ {WatchKey} :
            /\ IsDict(OnDiskNow)
            /\ Has(OnDiskNow, k)
            /\ OnDiskNow.map[k] = loaded.map[k]

\* The second save of a run that loaded another key: the watched entry is
\* the one of this cycle, the other key is there as loaded.
C20_Witness ==
    /\ cyc.saved
    /\ now >= 1
    /\ OtherKey \in DOMAIN loaded.map
    /\ Has(OnDiskNow, WatchKey)
    /\ OnDiskNow.map[WatchKey].last_check_utc = now
    /\ WatchedEntry(OnDiskNow) # WatchedEntry(loaded)
    /\ Has(OnDiskNow, OtherKey)
    /\ OnDiskNow.map[OtherKey] = loaded.map[OtherKey]

====
